---- MODULE Spec2Model ----
(***************************************************************************)
(* Model of the OmniConnect signaling server (express + ws), the session   *)
(* coordinator: clients map, waitingQueue, activePairs, and the handlers   *)
(* for connection, message, close and error.                               *)
(***************************************************************************)
EXTENDS Integers, Sequences, FiniteSets, TLC

\* Number of transports (uuids) that connect during a run.
MaxIds == 3
\* Longest find-partner scenario followed by the observer variable run.
MaxRun == 3
\* ICE candidates a peer connection produces.
MaxCandidates == 2
\* WebSockets one SignalingService creates.
MaxSockets == 6
\* 'waiting' messages a participant is sent between two of its pairings.
MaxWaitings == 2

\* Map.get() of an absent key (undefined); uuids are truthy, undefined is not.
None == 0

Ids == 1..MaxIds
\* The opaque negotiation blob of a relayed message (message.offer,
\* message.answer, message.candidate): the server never looks inside it.
Payloads == {"blob"}

VARIABLES
    clients,          \* keys of the clients Map
    ws,               \* per id: lifecycle of the transport captured by the handlers
    waitingQueue,     \* array of ids
    activePairs,      \* Map id -> id, None where the key is absent
    nextId,           \* the next fresh uuid
    sent,             \* messages the server sent while handling the last event
    last,             \* which handler ran last
    run,              \* observer: ids of an undisturbed find-partner scenario
    streak,           \* observer: whose termination was handled last, and whether twice in a row
    health,           \* the body of the last /health response, NoHealth after any other event
    browser           \* the modelled browser clients, by server id; <<>> when none is attached,
                      \* a CountingClient each in SpecWait; otherwise:
                      \*   sockets         the WebSockets SignalingService created that have not closed, oldest first
                      \*   created         the number of WebSockets it has created
                      \*   ws              SignalingService.ws: an index of sockets, 0 for null
                      \*   reconnectAttempts  SignalingService.reconnectAttempts
                      \*   timers          reconnect timeouts scheduled and not fired yet
                      \*   delay           observer: the delay of the reconnect scheduled last, in ms
                      \*   inbox           messages the server wrote to its socket, not yet handled
                      \*   outbox          messages it wrote to its socket, not yet handled by the server
                      \*   status          App state status
                      \*   error           App state error is set
                      \*   isInitiator     App state isInitiator
                      \*   peerConnection  "null", or the signalingState of WebRTCService.peerConnection
                      \*   localDescription, remoteDescription  of that peer connection
                      \*   chain           operations queued on that peer connection, in order
                      \*   callbacks       WebRTCService.onIceCandidate and onConnectionStateChange are set
                      \*   sentKinds       observer: the message types the client has sent
                      \*   localSets, remoteSets  observer: descriptions set in the current pairing
                      \*   produced        observer: local candidates produced
                      \*   received, applied      observer: remote candidates received / added
                      \*   stopped         observer: stopChat ran and startChat has not run since
                      \*   partnerId       SignalingService.partnerId, None for null
                      \*   offerRelayed    observer: the server has forwarded an offer of this client since it last paired it

serverVars == <<clients, ws, waitingQueue, activePairs, nextId, sent, last, run, streak, health>>

vars == <<serverVars, browser>>

\* the two browsers whose client is modelled, by the id the server gives them
Peers == {1, 2}

----------------------------------------------------------------------------
\* Helpers

Includes(q, x) == \E i \in 1..Len(q) : q[i] = x

IndexOf(q, x) == IF Includes(q, x) THEN CHOOSE i \in 1..Len(q) : q[i] = x /\ \A j \in 1..(i-1) : q[j] # x ELSE 0

Msg(to, type, arg, payload) == [to |-> to, type |-> type, arg |-> arg, payload |-> payload]

\* client.ws.readyState === 1 (OPEN)
readyStateIsOpen(id) == ws[id] = "open"

\* The message handler of a transport can still fire: the socket is open, or
\* its error event was emitted and its close event has not been yet.
Receiving(id) == ws[id] \in {"open", "errored"}

\* sendToClient that writes without looking at clients or readyState
sendToClientUnchecked(clientId, message) == <<message>>

\* sendToClient without the readyState test
sendToClientAnyReadyState(clientId, message) ==
    IF clientId \in clients THEN <<message>> ELSE <<>>

\* sendToClient(clientId, message): the messages actually written
sendToClient(clientId, message) ==
    IF clientId \in clients /\ readyStateIsOpen(clientId) THEN <<message>> ELSE <<>>

\* removeFromQueue that never splices
removeFromQueueKeeps(q, userId) == q

\* removeFromQueue(userId): indexOf + splice(index, 1)
removeFromQueue(q, userId) ==
    LET index == IndexOf(q, userId) IN
    IF index > 0 THEN SubSeq(q, 1, index - 1) \o SubSeq(q, index + 1, Len(q)) ELSE q

\* activePairs.delete(k)
MapDelete(m, k) == [m EXCEPT ![k] = None]

\* pairUsers: the two activePairs.set calls, in order
pairUsersMap(m, userId1, userId2) == [[m EXCEPT ![userId1] = userId2] EXCEPT ![userId2] = userId1]

\* pairUsers with the second notification naming the wrong id
pairUsersMsgsSamePartner(userId1, userId2) ==
    sendToClient(userId1, Msg(userId1, "paired", userId2, None))
    \o sendToClient(userId2, Msg(userId2, "paired", userId2, None))

\* pairUsers: the two notifications, in order
pairUsersMsgs(userId1, userId2) ==
    sendToClient(userId1, Msg(userId1, "paired", userId2, None))
    \o sendToClient(userId2, Msg(userId2, "paired", userId1, None))

\* find-partner without the includes() guard
findPartnerAcceptsAlways(q, userId) == TRUE

\* find-partner: the guard of the enqueue
findPartnerAccepts(q, userId) == ~Includes(q, userId)

\* find-partner that pairs without shift()
shiftNone(q) == q

\* find-partner with a single shift()
shiftOne(q) == Tail(q)

\* find-partner: the queue after the two shift() calls
shiftTwo(q) == Tail(Tail(q))

\* skip / disconnect without activePairs.delete(userId)
skipUnpairPartnerOnly(m, userId, currentPartnerId) == MapDelete(m, currentPartnerId)

\* skip / disconnect: the two activePairs.delete calls
skipUnpair(m, userId, currentPartnerId) == MapDelete(MapDelete(m, currentPartnerId), userId)

\* handleDisconnect without activePairs.delete(partnerId)
disconnectUnpairOwnKeyOnly(m, userId, partnerId) == MapDelete(m, userId)

\* handleDisconnect: the two activePairs.delete calls
disconnectUnpair(m, userId, partnerId) == MapDelete(MapDelete(m, partnerId), userId)

PartnerLeft(to) == Msg(to, "partner-left", None, None)

\* relay with the partner's id in the from field
relayMsgFromPartner(partnerId, kind, userId, payload) == Msg(partnerId, kind, partnerId, payload)

\* relay that forwards the message without its negotiation blob
relayMsgWithoutPayload(partnerId, kind, userId, payload) == Msg(partnerId, kind, userId, None)

\* offer / answer / ice-candidate: the forwarded message
relayMsg(partnerId, kind, userId, payload) == Msg(partnerId, kind, userId, payload)

\* connection handler that registers the client without telling it its id
connectedMsgsNone(userId) == <<>>

\* connection: ws.send of the connected message
connectedMsgs(userId) == <<Msg(userId, "connected", userId, None)>>

\* unknown type answered with an error message
droppedMsgsError(userId) == sendToClient(userId, Msg(userId, "error", None, None))

\* default case and catch: console output only
droppedMsgs(userId) == <<>>

\* activePairs.size
MapSize(m) == Cardinality({k \in DOMAIN m : m[k] # None})

\* n / 2 as JavaScript computes it: whole part and whether a half remains
Half(n) == [whole |-> n \div 2, half |-> n % 2 = 1]

NoHealth == [status |-> "none"]

\* app.get('/health'): the JSON body
healthBody(c, q, m) ==
    [status |-> "ok", clients |-> Cardinality(c), waiting |-> Len(q), activePairs |-> Half(MapSize(m))]

NoStreak == [id |-> None, kind |-> "none", repeated |-> FALSE]

Idle(id) == ~Includes(waitingQueue, id) /\ activePairs[id] = None

----------------------------------------------------------------------------
\* the server as it starts listening
ServerInit ==
    /\ clients = {}
    /\ ws = [i \in Ids |-> "none"]
    /\ waitingQueue = <<>>
    /\ activePairs = [i \in Ids |-> None]
    /\ nextId = 1
    /\ sent = <<>>
    /\ last = "init"
    /\ run = <<>>
    /\ streak = NoStreak
    /\ health = NoHealth

Init == ServerInit /\ browser = <<>>

\* Every event updates the observers the same way.
Observe(ev, msgs) ==
    /\ sent' = msgs
    /\ last' = ev
    /\ health' = NoHealth

\* wss.on('connection')
Connection ==
    /\ nextId <= MaxIds
    /\ LET userId == nextId IN
       /\ clients' = clients \cup {userId}
       /\ ws' = [ws EXCEPT ![userId] = "open"]
       /\ nextId' = nextId + 1
       /\ Observe("connection", connectedMsgs(userId))
    /\ streak' = NoStreak
    /\ UNCHANGED <<waitingQueue, activePairs, run>>

\* ws.on('message'), case 'find-partner'
FindPartner(userId) ==
    /\ Receiving(userId)
    /\ LET accepted == findPartnerAccepts(waitingQueue, userId)
           pushed == Append(waitingQueue, userId)
           pairs == accepted /\ Len(pushed) >= 2
           user1 == pushed[1]
           user2 == pushed[2]
           msgs == IF ~accepted THEN <<>>
                   ELSE IF pairs THEN pairUsersMsgs(user1, user2)
                   ELSE sendToClient(userId, Msg(userId, "waiting", None, None))
           scenario == /\ Idle(userId)
                       /\ ws[userId] = "open"
                       /\ Len(run) < MaxRun
                       /\ (run = <<>> => waitingQueue = <<>>)
       IN
       /\ waitingQueue' = IF ~accepted THEN waitingQueue
                          ELSE IF pairs THEN shiftTwo(pushed) ELSE pushed
       /\ activePairs' = IF pairs THEN pairUsersMap(activePairs, user1, user2) ELSE activePairs
       /\ Observe("find-partner", msgs)
       /\ run' = IF scenario THEN Append(run, userId) ELSE <<>>
    /\ streak' = NoStreak
    /\ UNCHANGED <<clients, ws, nextId>>

\* ws.on('message'), cases 'offer', 'answer', 'ice-candidate'
Relay(kind, userId, payload) ==
    /\ Receiving(userId)
    /\ LET partnerId == activePairs[userId] IN
       Observe("relay",
               IF partnerId # None THEN sendToClient(partnerId, relayMsg(partnerId, kind, userId, payload)) ELSE <<>>)
    /\ streak' = NoStreak
    /\ UNCHANGED <<clients, ws, waitingQueue, activePairs, nextId, run>>

\* ws.on('message'), cases 'skip' and 'disconnect'
SkipOrDisconnect(kind, userId) ==
    /\ Receiving(userId)
    /\ LET currentPartnerId == activePairs[userId]
           left == IF currentPartnerId # None
                   THEN sendToClient(currentPartnerId, PartnerLeft(currentPartnerId)) ELSE <<>>
       IN
       /\ activePairs' = IF currentPartnerId # None
                         THEN skipUnpair(activePairs, userId, currentPartnerId) ELSE activePairs
       /\ waitingQueue' = removeFromQueue(waitingQueue, userId)
       /\ Observe("leave", left \o sendToClient(userId, Msg(userId, "disconnected", None, None)))
    /\ run' = <<>>
    /\ streak' = [id |-> userId, kind |-> "leave",
                  repeated |-> streak.id = userId /\ streak.kind = "leave"]
    /\ UNCHANGED <<clients, ws, nextId>>

\* ws.on('message'), default case (unknown type) and the catch of JSON.parse
Dropped(kind, userId) ==
    /\ Receiving(userId)
    /\ Observe("dropped", droppedMsgs(userId))
    /\ streak' = NoStreak
    /\ UNCHANGED <<clients, ws, waitingQueue, activePairs, nextId, run>>

\* handleDisconnect(userId)
handleDisconnect(ev, userId) ==
    LET q == removeFromQueue(waitingQueue, userId)
        partnerId == activePairs[userId]
    IN
    /\ waitingQueue' = q
    /\ activePairs' = IF partnerId # None THEN disconnectUnpair(activePairs, userId, partnerId) ELSE activePairs
    /\ clients' = clients \ {userId}
    /\ Observe(ev, IF partnerId # None THEN sendToClient(partnerId, PartnerLeft(partnerId)) ELSE <<>>)
    /\ run' = <<>>
    /\ streak' = [id |-> userId, kind |-> "transport",
                  repeated |-> streak.id = userId /\ streak.kind = "transport"]

\* ws.on('error'): the socket leaves OPEN, its close event is still to come
Error(userId) ==
    /\ ws[userId] = "open"
    /\ ws' = [ws EXCEPT ![userId] = "errored"]
    /\ handleDisconnect("error", userId)
    /\ UNCHANGED nextId

\* ws.on('close')
Close(userId) ==
    /\ ws[userId] \in {"open", "closing", "errored"}
    /\ ws' = [ws EXCEPT ![userId] = "closed"]
    /\ handleDisconnect("close", userId)
    /\ UNCHANGED nextId

\* The socket of a registered client leaves OPEN (close frame received, TCP
\* teardown) before its close event is dispatched: readyState is no longer 1.
Drop(userId) ==
    /\ ws[userId] = "open"
    /\ ws' = [ws EXCEPT ![userId] = "closing"]
    /\ Observe("drop", <<>>)
    /\ run' = <<>>
    /\ streak' = NoStreak
    /\ UNCHANGED <<clients, waitingQueue, activePairs, nextId>>

\* app.get('/health')
Health ==
    /\ health' = healthBody(clients, waitingQueue, activePairs)
    /\ sent' = <<>>
    /\ last' = "health"
    /\ streak' = NoStreak
    /\ UNCHANGED <<clients, ws, waitingQueue, activePairs, nextId, run>>

\* The server alone: its events arrive from any client; the modelled browsers stay as constructed.
Next ==
    \/ Connection /\ UNCHANGED browser
    \/ Health /\ UNCHANGED browser
    \/ \E userId \in Ids : FindPartner(userId) /\ UNCHANGED browser
    \/ \E userId \in Ids, kind \in {"offer", "answer", "ice-candidate"}, payload \in Payloads :
           Relay(kind, userId, payload) /\ UNCHANGED browser
    \/ \E userId \in Ids, kind \in {"skip", "disconnect"} : SkipOrDisconnect(kind, userId) /\ UNCHANGED browser
    \/ \E userId \in Ids, kind \in {"unknown", "malformed"} : Dropped(kind, userId) /\ UNCHANGED browser
    \/ \E userId \in Ids : Error(userId) /\ UNCHANGED browser
    \/ \E userId \in Ids : Close(userId) /\ UNCHANGED browser
    \/ \E userId \in Ids : Drop(userId) /\ UNCHANGED browser

Spec == Init /\ [][Next]_vars

----------------------------------------------------------------------------
TypeOK ==
    /\ clients \subseteq Ids
    /\ nextId \in 1..(MaxIds + 1)
    /\ \A i \in 1..Len(waitingQueue) : waitingQueue[i] \in Ids
    /\ \A i \in Ids : activePairs[i] \in Ids \cup {None}

\* a and b are each other's partner
Mutual(a, b) == a # b /\ activePairs[a] = b /\ activePairs[b] = a

\* id is a value of activePairs (somebody has it as partner)
IsPartnerOfSomeone(id) == \E x \in Ids : activePairs[x] = id

----------------------------------------------------------------------------
\* C1: the pair registry is symmetric in every reachable state: if
\* partnerOf(a) = b then partnerOf(b) = a.
C1_PairingSymmetric ==
    \A a \in Ids : \A b \in Ids : activePairs[a] = b => activePairs[b] = a

\* C2: no participant is at once an element of waitingQueue and a key of
\* activePairs.
C2_QueueDisjointFromPairs ==
    \A a \in Ids : ~(Includes(waitingQueue, a) /\ activePairs[a] # None)

\* C3: a find-partner from a sender that is already waiting or already has a
\* partner is ignored: waitingQueue and activePairs are unchanged.
C3_FindPartnerOnlyWhenIdle ==
    [][last' = "find-partner" =>
         \A a \in Ids : (FindPartner(a) /\ ~Idle(a)) =>
            (waitingQueue' = waitingQueue /\ activePairs' = activePairs)]_vars

\* The coordinator state the claims speak about
Core == <<clients, waitingQueue, activePairs>>

NoDuplicates(q) == \A i \in 1..Len(q) : \A j \in 1..Len(q) : q[i] = q[j] => i = j

HasPartnerLeft(msgs) == \E i \in 1..Len(msgs) : msgs[i].type = "partner-left"

Leave(a) == SkipOrDisconnect("skip", a) \/ SkipOrDisconnect("disconnect", a)

\* C4: waitingQueue never contains the same id twice, and a find-partner from
\* a participant that is already in the queue leaves the queue unchanged.
C4_QueueNeverHoldsAnIdTwice ==
    /\ []NoDuplicates(waitingQueue)
    /\ [][last' = "find-partner" =>
             \A a \in Ids : (FindPartner(a) /\ Includes(waitingQueue, a)) =>
                waitingQueue' = waitingQueue]_vars

\* C4 witness: a find-partner was handled whose sender, an open registered
\* participant, was already the one waiting: nothing was sent, the queue kept it once.
C4_Witness ==
    /\ last = "find-partner"
    /\ sent = <<>>
    /\ Len(waitingQueue) = 1
    /\ waitingQueue[1] \in clients
    /\ ws[waitingQueue[1]] = "open"

\* C5: two registered Idle participants A and B send find-partner one after the
\* other with no other queue activity (run = <<A, B>>, begun on an empty queue):
\* A first waits alone and is told so; B's request then creates exactly the pair
\* A <-> B, the server sends exactly one paired message to each, naming the
\* other, and the queue is empty.
C5_TwoIdleRequestsMakeOnePair ==
    /\ [](Len(run) = 1 =>
            /\ waitingQueue = <<run[1]>>
            /\ activePairs[run[1]] = None
            /\ (last = "find-partner" => sent = <<Msg(run[1], "waiting", None, None)>>))
    /\ [](Len(run) = 2 =>
            /\ run[1] # run[2]
            /\ activePairs[run[1]] = run[2]
            /\ activePairs[run[2]] = run[1]
            /\ waitingQueue = <<>>
            /\ (last = "find-partner" =>
                  /\ \A x \in Ids : Len(SelectSeq(sent, LAMBDA m : m.to = x /\ m.type = "paired"))
                                      = IF x \in {run[1], run[2]} THEN 1 ELSE 0
                  /\ \E i \in 1..Len(sent) : sent[i] = Msg(run[1], "paired", run[2], None)
                  /\ \E i \in 1..Len(sent) : sent[i] = Msg(run[2], "paired", run[1], None)))
    /\ [][(Len(run) = 1 /\ Len(run') = 2) =>
            \A x \in Ids : x \notin {run'[1], run'[2]} => activePairs'[x] = activePairs[x]]_vars

\* C5 witness: the second of the two requests has been handled.
C5_Witness == Len(run) = 2 /\ last = "find-partner" /\ Len(sent) = 2

\* C6: pairing is FIFO by arrival. Idle P1, P2, P3 send find-partner in that
\* order with no intervening skip or disconnect (run = <<P1, P2, P3>>): P1 is
\* paired with P2 and P3 is alone in the queue, unpaired. In general a
\* find-partner that creates a pair pairs the two oldest entries of the queue
\* as it stands with the sender appended, and removes exactly those two.
C6_PairingIsFifo ==
    /\ [](Len(run) = 3 =>
            /\ activePairs[run[1]] = run[2]
            /\ activePairs[run[2]] = run[1]
            /\ waitingQueue = <<run[3]>>
            /\ activePairs[run[3]] = None)
    /\ [][\A a \in Ids : (activePairs' # activePairs /\ last' = "find-partner" /\ FindPartner(a)) =>
            LET arrivals == waitingQueue \o <<a>> IN
            /\ activePairs'[arrivals[1]] = arrivals[2]
            /\ activePairs'[arrivals[2]] = arrivals[1]
            /\ \A x \in Ids : x \notin {arrivals[1], arrivals[2]} => activePairs'[x] = activePairs[x]
            /\ waitingQueue' = SubSeq(arrivals, 3, Len(arrivals))]_vars

\* C6 witness: the third request has been handled and its sender told to wait.
C6_Witness == Len(run) = 3 /\ last = "find-partner" /\ sent = <<Msg(run[3], "waiting", None, None)>>

\* C7: A is paired with B (each is the other's partner, B's socket open) and A's
\* transport closes (error and/or close event): handling the event sends B
\* exactly one partner-left and nothing else, B ends with no partner, and B's
\* membership of the queue is unchanged. A has no partner once the event is
\* handled, and a closure event of a transport that has no partner (the close
\* after the error) sends nothing, so there is one partner-left per pairing.
\* Nobody enters the queue except by its own find-partner.
C7_TransportCloseNotifiesPartnerOnce ==
    [][/\ last' \in {"close", "error"} =>
            \A a \in Ids : (Close(a) \/ Error(a)) =>
                /\ activePairs'[a] = None
                /\ (activePairs[a] = None => sent' = <<>>)
                /\ \A b \in Ids : (Mutual(a, b) /\ b \in clients /\ ws[b] = "open") =>
                      /\ sent' = <<PartnerLeft(b)>>
                      /\ activePairs'[b] = None
                      /\ (Includes(waitingQueue', b) <=> Includes(waitingQueue, b))
       /\ waitingQueue' # waitingQueue =>
            \A b \in Ids : (~Includes(waitingQueue, b) /\ Includes(waitingQueue', b)) => FindPartner(b)
      ]_vars

\* C7 witness: a closure was handled that sent partner-left to an open,
\* registered participant, who is left without partner and outside the queue.
C7_Witness ==
    /\ last \in {"close", "error"}
    /\ \E b \in clients :
          /\ sent = <<PartnerLeft(b)>>
          /\ ws[b] = "open"
          /\ Idle(b)
          /\ ws[streak.id] \in {"closed", "errored"}

\* C8: A and B are paired and A sends skip: afterwards neither A nor B is a key
\* or a value of activePairs, B has been sent partner-left, A is in neither the
\* queue nor the registry, and a following find-partner from A is accepted.
C8_SkipReleasesBothSides ==
    [][\A a \in Ids : \A b \in Ids :
          (last' = "leave" /\ Mutual(a, b) /\ SkipOrDisconnect("skip", a)) =>
              /\ activePairs'[a] = None
              /\ activePairs'[b] = None
              /\ \A x \in Ids : activePairs'[x] \notin {a, b}
              /\ ((b \in clients /\ ws[b] = "open") => \E i \in 1..Len(sent') : sent'[i] = PartnerLeft(b))
              /\ ~Includes(waitingQueue', a)
              /\ findPartnerAccepts(waitingQueue', a)
      ]_vars

\* C9: after the transport closure of id has been handled, id is not a key of
\* clients, not an element of waitingQueue, and neither a key nor a value of
\* activePairs.
C9_ClosedIdAppearsNowhere ==
    \A id \in Ids : ws[id] = "closed" =>
        /\ id \notin clients
        /\ ~Includes(waitingQueue, id)
        /\ activePairs[id] = None
        /\ ~IsPartnerOfSomeone(id)

\* C10: unpairing is idempotent. A second skip / disconnect from the same
\* participant right after its first, and the close event of a transport
\* right after its error event, leave clients, waitingQueue and activePairs
\* as they are and send no partner-left.
C10_UnpairIsIdempotent ==
    [][\A a \in Ids :
          /\ (streak.id = a /\ streak.kind = "leave" /\ Leave(a)) =>
                (Core' = Core /\ ~HasPartnerLeft(sent'))
          /\ (streak.id = a /\ streak.kind = "transport" /\ Close(a)) =>
                (Core' = Core /\ ~HasPartnerLeft(sent'))
      ]_vars

\* C10 witness: the close event of a transport was handled right after its
\* error event (the second handleDisconnect for that id).
C10_Witness == streak.repeated /\ streak.kind = "transport" /\ last = "close" /\ ws[streak.id] = "closed"

----------------------------------------------------------------------------
CountType(msgs, t) == Cardinality({i \in 1..Len(msgs) : msgs[i].type = t})

\* C11: a skip or disconnect succeeds whatever the sender's state (idle,
\* waiting or paired): once it has been handled the sender is not in
\* waitingQueue and not a key of activePairs, and a sender whose transport is
\* open has been sent exactly one disconnected acknowledgement, nobody else any.
C11_LeaveAlwaysAcknowledged ==
    last = "leave" =>
        /\ ~Includes(waitingQueue, streak.id)
        /\ activePairs[streak.id] = None
        /\ CountType(sent, "disconnected") <= 1
        /\ \A i \in 1..Len(sent) : sent[i].type = "disconnected" => sent[i].to = streak.id
        /\ ws[streak.id] = "open" => CountType(sent, "disconnected") = 1

\* C11 witness: the skip of a paired participant was handled: its partner was
\* told partner-left, the sender was acknowledged, and the sender is idle.
C11_Witness ==
    /\ last = "leave"
    /\ Len(sent) = 2
    /\ sent[1].type = "partner-left"
    /\ sent[2] = Msg(streak.id, "disconnected", None, None)
    /\ Idle(streak.id)

----------------------------------------------------------------------------
RelayKinds == {"offer", "answer", "ice-candidate"}

\* clients.get(id) exists and its socket is open
RegisteredOpen(id) == id \in clients /\ readyStateIsOpen(id)

\* C12: when A, whose partner B is a registered open participant, sends an
\* offer, answer or ice-candidate, the server sends exactly one message, of the
\* same kind, to B and to nobody else, carrying the payload unchanged and A's
\* id as its from field; the registries are left alone.
C12_RelayReachesPartnerOnly ==
    [][last' = "relay" =>
          \A a \in Ids : (Receiving(a) /\ activePairs[a] # None /\ RegisteredOpen(activePairs[a])) =>
            \A kind \in RelayKinds : \A p \in Payloads :
             Relay(kind, a, p) =>
                 /\ sent' = <<[to |-> activePairs[a], type |-> kind, arg |-> a, payload |-> p]>>
                 /\ Core' = Core
      ]_vars

\* C12 witness: an offer was relayed to the sender's partner, who is open and
\* registered and mutually paired with the sender.
C12_Witness ==
    /\ last = "relay"
    /\ Len(sent) = 1
    /\ sent[1].type = "offer"
    /\ sent[1].payload \in Payloads
    /\ Mutual(sent[1].arg, sent[1].to)
    /\ RegisteredOpen(sent[1].to)

\* C13: a relay message from a sender that has no partner, or whose partner is
\* not a registered open participant any more, is dropped: nothing is sent to
\* anyone and clients, waitingQueue and activePairs are unchanged.
\* (stated as: a step that sends something, or changes a registry, is not the
\* handling of a relay message from such a sender)
C13_RelayWithoutLivePartnerDropped ==
    [][(last' = "relay" /\ (sent' # <<>> \/ Core' # Core)) =>
          \A a \in Ids : (Receiving(a) /\ (activePairs[a] = None \/ ~RegisteredOpen(activePairs[a]))) =>
            \A kind \in RelayKinds : \A p \in Payloads : ~Relay(kind, a, p)
      ]_vars

\* C13 witness: a relay message was handled and nothing was sent, in a state
\* where every participant that can still send has a partner that is not a
\* registered open participant (so the sender's partner was gone).
C13_Witness ==
    /\ last = "relay"
    /\ sent = <<>>
    /\ \E a \in Ids : Receiving(a)
    /\ \A a \in Ids : Receiving(a) => (activePairs[a] # None /\ ~RegisteredOpen(activePairs[a]))

----------------------------------------------------------------------------
\* x is somebody other than a and other than a's mutual partner
ThirdParty(a, x) == x # a /\ ~Mutual(a, x)

\* C14: the termination of A (skip, disconnect or transport closure) never
\* affects a third party: everyone other than A and A's mutual partner keeps
\* its place in the queue and its pairing, is sent nothing, and keeps a partner
\* that is still paired with it.
C14_TerminationLeavesThirdPartiesAlone ==
    [][last' \in {"leave", "close", "error"} =>
          \A a \in Ids : (Leave(a) \/ Close(a) \/ Error(a)) =>
             \A x \in Ids : ThirdParty(a, x) =>
                 /\ activePairs'[x] = activePairs[x]
                 /\ Includes(waitingQueue', x) <=> Includes(waitingQueue, x)
                 /\ \A y \in Ids : (ThirdParty(a, y) /\ Includes(waitingQueue, y)
                                       /\ IndexOf(waitingQueue, x) < IndexOf(waitingQueue, y)) =>
                                          IndexOf(waitingQueue', x) < IndexOf(waitingQueue', y)
                 /\ \A i \in 1..Len(sent') : sent'[i].to # x
                 /\ (activePairs[x] # None /\ activePairs[activePairs[x]] = x) =>
                        activePairs'[activePairs'[x]] = x
      ]_vars

----------------------------------------------------------------------------
\* C15: the pair relation is never self-referential: no participant is its own
\* partner, and no paired message names its own recipient as the partner.
C15_NobodyPairedWithItself ==
    /\ \A a \in Ids : activePairs[a] # a
    /\ \A i \in 1..Len(sent) : sent[i].type = "paired" => sent[i].arg # sent[i].to

\* C15 witness: a pairing was just announced to both sides, each told the
\* other's id, and the registry holds them as each other's partner.
C15_Witness ==
    /\ last = "find-partner"
    /\ Len(sent) = 2
    /\ sent[1].type = "paired" /\ sent[2].type = "paired"
    /\ sent[1].arg = sent[2].to /\ sent[2].arg = sent[1].to
    /\ Mutual(sent[1].to, sent[2].to)

----------------------------------------------------------------------------
\* the mutually paired couples
Couples == {c \in SUBSET Ids : \E a \in Ids : \E b \in Ids : c = {a, b} /\ Mutual(a, b)}

\* C16: the health query is read-only and accurate: it changes none of the
\* registries and reports the number of registered participants, the length of
\* the queue, and a pair count that is a whole number equal to the number of
\* mutually paired couples (activePairs always holds an even number of entries).
C16_HealthReadOnlyAndAccurate ==
    /\ [](last = "health" =>
             /\ health.clients = Cardinality(clients)
             /\ health.waiting = Len(waitingQueue)
             /\ ~health.activePairs.half
             /\ health.activePairs.whole = Cardinality(Couples))
    /\ [](MapSize(activePairs) % 2 = 0)
    /\ [][Health => Core' = Core]_vars

----------------------------------------------------------------------------
\* C17: a message that cannot be parsed, or whose type is unknown, is dropped:
\* clients, waitingQueue and activePairs are unchanged, nothing is sent, the
\* sender's transport is left as it was, and its later messages are still handled.
C17_BadMessageDropped ==
    [][last' = "dropped" =>
          \A kind \in {"unknown", "malformed"} : \A a \in Ids :
             Dropped(kind, a) =>
                 /\ Core' = Core
                 /\ sent' = <<>>
                 /\ ws' = ws
                 /\ Receiving(a)'
      ]_vars

\* C17 witness: a bad message was dropped while a couple is paired and
\* somebody waits; everyone who could have sent it is still registered and open.
C17_Witness ==
    /\ last = "dropped"
    /\ sent = <<>>
    /\ waitingQueue # <<>>
    /\ Couples # {}
    /\ \E a \in Ids : Receiving(a)
    /\ \A a \in Ids : Receiving(a) => RegisteredOpen(a)

----------------------------------------------------------------------------
\* handleDisconnect has run for id (on its error or its close event)
ClosureProcessed(id) == ws[id] \in {"errored", "closed"}

\* C18: once the closure of a participant's transport has been processed, the
\* server never sends any further message to that id.
C18_NothingSentAfterClosure ==
    \A i \in 1..Len(sent) : ~ClosureProcessed(sent[i].to)

\* C18 witness: a participant whose closure had been processed was paired (its
\* find-partner still arrived): only the live side was sent paired, naming it.
C18_Witness ==
    /\ last = "find-partner"
    /\ Len(sent) = 1
    /\ sent[1].type = "paired"
    /\ ClosureProcessed(sent[1].arg)
    /\ Mutual(sent[1].arg, sent[1].to)

\* C19: the first message on each transport is connected, carrying the
\* assigned id, before any waiting, paired or relayed message; the id differs
\* from every id issued before; a new participant is neither queued nor paired.
C19_ConnectedComesFirst ==
    /\ [](\A i \in 1..Len(sent) : ws[sent[i].to] # "none")
    /\ [][last' = "connection" =>
             (Connection =>
                \E userId \in Ids :
                    /\ ws[userId] = "none" /\ ws'[userId] = "open"
                    /\ userId \notin clients /\ userId \in clients'
                    /\ sent' = <<[to |-> userId, type |-> "connected", arg |-> userId, payload |-> None]>>
                    /\ ~Includes(waitingQueue', userId)
                    /\ activePairs'[userId] = None
                    /\ ~(IsPartnerOfSomeone(userId))')
      ]_vars

\* C19 witness: a second transport has just been accepted and sent its id,
\* which is not the first transport's id.
C19_Witness ==
    /\ last = "connection"
    /\ Cardinality({id \in Ids : ws[id] # "none"}) >= 2
    /\ Len(sent) = 1
    /\ sent[1].type = "connected"
    /\ sent[1].arg = sent[1].to
    /\ Idle(sent[1].to)

----------------------------------------------------------------------------
\* The browser client (App.jsx, SignalingService.js, WebRTCService) of the two
\* Peers, attached to the server above.

SignalingStates == {"stable", "have-local-offer", "have-remote-offer"}

\* a WebSocket the service created: its readyState (with "failed" for a
\* socket whose error event has fired and whose close event is due) and the
\* id the server gave it, None before the server accepts it
Socket(state, sid) == [state |-> state, sid |-> sid]

\* this.ws.readyState, "null" without a socket
readyState(b) == IF b.ws = 0 THEN "null" ELSE b.sockets[b.ws].state

\* the server's id of this.ws
socketId(b) == IF b.ws = 0 THEN None ELSE b.sockets[b.ws].sid

\* the server ids of the sockets of b on which a message can still arrive
Listening(b) ==
    {b.sockets[i].sid : i \in {k \in 1..Len(b.sockets) : b.sockets[k].state \in {"connecting", "open", "closing"}}}
        \ {None}

\* ws.onmessage: the messages of msgs written to a socket of b, in order
WrittenTo(msgs, b) == SelectSeq(msgs, LAMBDA m : m.to \in Listening(b))

\* what the server wrote in this step arrives at the browsers
Deliver(bs) ==
    [p \in Peers |->
        [bs[p] EXCEPT !.inbox = @ \o WrittenTo(sent', bs[p]),
                      !.offerRelayed = @ /\ \A i \in 1..Len(sent') :
                                               ~(sent'[i].type = "paired" /\ sent'[i].to \in Listening(bs[p]))]]

\* SignalingService.send(message): written only if this.ws is OPEN
send(b, type, payload) ==
    IF readyState(b) = "open"
    THEN [b EXCEPT !.outbox = Append(@, [type |-> type, payload |-> payload, from |-> socketId(b)]),
                   !.sentKinds = @ \cup {type}]
    ELSE b

\* ws.onmessage -> handleMessage: the message being dispatched, on a socket
\* whose open event has fired
Handling(c, type) ==
    /\ browser[c].inbox # <<>>
    /\ Head(browser[c].inbox).type = type
    /\ \E s \in 1..Len(browser[c].sockets) :
           /\ browser[c].sockets[s].sid = Head(browser[c].inbox).to
           /\ browser[c].sockets[s].state \in {"open", "closing"}

\* the client after the dispatched message is taken off its socket
Handled(c) == [browser[c] EXCEPT !.inbox = Tail(@)]

\* an operation queued on the peer connection (its operations chain)
Op(name, k) == [op |-> name, k |-> k]

\* createOffer / createAnswer: if (!this.peerConnection) this.createPeerConnection()
ensurePeerConnection(b) ==
    IF b.peerConnection = "null"
    THEN [b EXCEPT !.peerConnection = "stable", !.localDescription = "none", !.remoteDescription = "none",
                   !.chain = <<>>]
    ELSE b

\* App's useState defaults and the two services as initializeServices builds them
MountedClient ==
    [sockets |-> <<>>, ws |-> 0, created |-> 0, reconnectAttempts |-> 0, timers |-> 0, delay |-> 0,
     inbox |-> <<>>, outbox |-> <<>>,
     status |-> "disconnected", error |-> FALSE, isInitiator |-> FALSE,
     peerConnection |-> "null", localDescription |-> "none", remoteDescription |-> "none", chain |-> <<>>,
     callbacks |-> TRUE,
     sentKinds |-> {}, localSets |-> 0, remoteSets |-> 0, produced |-> 0,
     received |-> <<>>, applied |-> <<>>, stopped |-> FALSE,
     partnerId |-> None, offerRelayed |-> FALSE]

\* the client inside startChat (status 'initializing'), its socket open as
\* participant c and the connected message not handled yet
StartedClient(c) ==
    [MountedClient EXCEPT !.sockets = <<Socket("open", c)>>, !.ws = 1, !.created = 1,
                          !.inbox = connectedMsgs(c), !.status = "initializing"]

\* the server once it has accepted the sockets of both browsers
BothAccepted ==
    /\ clients = Peers
    /\ ws = [i \in Ids |-> IF i \in Peers THEN "open" ELSE "none"]
    /\ waitingQueue = <<>>
    /\ activePairs = [i \in Ids |-> None]
    /\ nextId = Cardinality(Peers) + 1
    /\ sent = <<>>
    /\ last = "connection"
    /\ run = <<>>
    /\ streak = NoStreak
    /\ health = NoHealth

\* both sockets have been accepted by the server
NegInit == BothAccepted /\ browser = [c \in Peers |-> StartedClient(c)]

\* the server's message handler runs on the next message of c, and what it
\* writes arrives at the clients
ServerHandles(c) ==
    /\ browser[c].outbox # <<>>
    /\ LET m == Head(browser[c].outbox) IN
       IF m.type = "find-partner" THEN FindPartner(m.from)
       ELSE IF m.type \in RelayKinds THEN Relay(m.type, m.from, m.payload)
       ELSE SkipOrDisconnect(m.type, m.from)
    /\ browser' = Deliver([browser EXCEPT ![c].outbox = Tail(@),
                                          ![c].offerRelayed = @ \/ (Head(browser[c].outbox).type = "offer" /\ sent' # <<>>)])

\* signaling.onConnected
OnConnected(c) ==
    /\ Handling(c, "connected")
    /\ browser' = [browser EXCEPT ![c] = [Handled(c) EXCEPT !.status = "connected", !.error = FALSE]]
    /\ UNCHANGED serverVars

\* SignalingService.findPartner()
findPartner(c) ==
    /\ readyState(browser[c]) = "open"
    /\ browser' = [browser EXCEPT ![c] = send(@, "find-partner", None)]
    /\ UNCHANGED serverVars

\* signaling.onWaiting
OnWaiting(c) ==
    /\ Handling(c, "waiting")
    /\ browser' = [browser EXCEPT ![c] = [Handled(c) EXCEPT !.status = "waiting"]]
    /\ UNCHANGED serverVars

\* signaling.onPaired, up to the await inside webrtc.createOffer():
\* pc.createOffer() is queued on the peer connection
OnPaired(c) ==
    /\ Handling(c, "paired")
    /\ LET b == ensurePeerConnection([Handled(c) EXCEPT !.status = "paired", !.isInitiator = TRUE,
                                                         !.partnerId = Head(browser[c].inbox).arg,
                                                         !.localSets = 0, !.remoteSets = 0]) IN
       browser' = [browser EXCEPT ![c] = [b EXCEPT !.chain = Append(@, Op("createOffer", None))]]
    /\ UNCHANGED serverVars

\* signaling.onOffer, up to the await inside webrtc.createAnswer(offer):
\* pc.setRemoteDescription(offer) is queued on the peer connection
OnOffer(c) ==
    /\ Handling(c, "offer")
    /\ LET b == ensurePeerConnection([Handled(c) EXCEPT !.isInitiator = FALSE, !.status = "connecting"]) IN
       browser' = [browser EXCEPT ![c] = [b EXCEPT !.chain = Append(@, Op("setRemoteOffer", None))]]
    /\ UNCHANGED serverVars

\* signaling.onAnswer -> webrtc.handleAnswer(answer): without a peer
\* connection it throws at once, which is only logged
OnAnswer(c) ==
    /\ Handling(c, "answer")
    /\ browser' = [browser EXCEPT ![c] =
                     [Handled(c) EXCEPT !.chain = IF browser[c].peerConnection = "null" THEN @
                                                  ELSE Append(@, Op("setRemoteAnswer", None))]]
    /\ UNCHANGED serverVars

\* signaling.onIceCandidate -> webrtc.addIceCandidate(candidate):
\* if (this.peerConnection && candidate) pc.addIceCandidate(...), else nothing
OnIceCandidate(c) ==
    /\ Handling(c, "ice-candidate")
    /\ LET k == Head(browser[c].inbox).payload IN
       browser' = [browser EXCEPT ![c] =
                     [Handled(c) EXCEPT !.received = Append(@, k),
                                        !.chain = IF browser[c].peerConnection = "null" THEN @
                                                  ELSE Append(@, Op("addIceCandidate", k))]]
    /\ UNCHANGED serverVars

\* the peer connection completes the operation at the head of its chain and
\* the code awaiting it continues: what the client is afterwards. Over a
\* local offer, setRemoteDescription(offer) either rolls the local offer back
\* or rejects, depending on the browser.
Completed(b, rollback) ==
    LET o == Head(b.chain)
        r == [b EXCEPT !.chain = Tail(@)]
        pc == b.peerConnection
    IN
    CASE o.op = "createOffer" ->
           [r EXCEPT !.chain = Append(@, Op("setLocalOffer", None))]
      [] o.op = "setLocalOffer" ->
           IF pc \in {"stable", "have-local-offer"}
           THEN [send([r EXCEPT !.peerConnection = "have-local-offer", !.localDescription = "offer",
                                !.localSets = @ + 1], "offer", CHOOSE p \in Payloads : TRUE)
                   EXCEPT !.status = "connecting"]
           ELSE [r EXCEPT !.error = TRUE]
      [] o.op = "setRemoteOffer" ->
           IF pc # "have-local-offer" \/ rollback
           THEN [r EXCEPT !.peerConnection = "have-remote-offer", !.remoteDescription = "offer",
                          !.localDescription = IF pc = "have-local-offer" THEN "none" ELSE @,
                          !.remoteSets = @ + 1,
                          !.chain = Append(@, Op("createAnswer", None))]
           ELSE [r EXCEPT !.error = TRUE]
      [] o.op = "createAnswer" ->
           IF pc = "have-remote-offer"
           THEN [r EXCEPT !.chain = Append(@, Op("setLocalAnswer", None))]
           ELSE [r EXCEPT !.error = TRUE]
      [] o.op = "setLocalAnswer" ->
           IF pc = "have-remote-offer"
           THEN send([r EXCEPT !.peerConnection = "stable", !.localDescription = "answer",
                               !.localSets = @ + 1], "answer", CHOOSE p \in Payloads : TRUE)
           ELSE [r EXCEPT !.error = TRUE]
      [] o.op = "setRemoteAnswer" ->
           IF pc = "have-local-offer"
           THEN [r EXCEPT !.peerConnection = "stable", !.remoteDescription = "answer", !.remoteSets = @ + 1]
           ELSE r
      [] o.op = "addIceCandidate" ->
           IF b.remoteDescription # "none"
           THEN [r EXCEPT !.applied = Append(@, o.k)]
           ELSE r

\* the head of the operations chain completes
ChainStep(c, rollback) ==
    /\ browser[c].chain # <<>>
    /\ browser' = [browser EXCEPT ![c] = Completed(@, rollback)]
    /\ UNCHANGED serverVars

\* pc.onicecandidate with a candidate, once a local description is set:
\* if (event.candidate && this.onIceCandidate) -> signaling.sendIceCandidate
IceCandidate(c) ==
    /\ browser[c].peerConnection # "null"
    /\ browser[c].localDescription # "none"
    /\ browser[c].produced < MaxCandidates
    /\ LET k == browser[c].produced + 1
           b == [browser[c] EXCEPT !.produced = k]
       IN
       browser' = [browser EXCEPT ![c] =
                     IF b.callbacks /\ readyState(b) = "open"
                     THEN send(b, "ice-candidate", k)
                     ELSE b]
    /\ UNCHANGED serverVars

NegNext ==
    \/ \E c \in Peers : ServerHandles(c)
    \/ \E c \in Peers : OnConnected(c)
    \/ \E c \in Peers : "find-partner" \notin browser[c].sentKinds /\ findPartner(c)
    \/ \E c \in Peers : OnWaiting(c)
    \/ \E c \in Peers : OnPaired(c)
    \/ \E c \in Peers : OnOffer(c)
    \/ \E c \in Peers : OnAnswer(c)
    \/ \E c \in Peers : OnIceCandidate(c)
    \/ \E c \in Peers, rollback \in BOOLEAN : ChainStep(c, rollback)
    \/ \E c \in Peers : IceCandidate(c)

SpecNeg == NegInit /\ [][NegNext]_vars

NegTypeOK ==
    \A c \in Peers :
        /\ browser[c].peerConnection \in SignalingStates \cup {"null"}
        /\ browser[c].sentKinds \subseteq {"find-partner", "skip"} \cup RelayKinds
        /\ browser[c].produced \in 0..MaxCandidates

\* nothing is in flight and no asynchronous step is outstanding
Quiescent == \A c \in Peers : browser[c].inbox = <<>> /\ browser[c].outbox = <<>> /\ browser[c].chain = <<>>

\* C20: in every pairing exactly one of the two clients takes the Initiator
\* role and sends the offer; the other takes the Responder role and sends only
\* an answer, never an offer, for that pairing.
C20_OneInitiatorPerPairing ==
    /\ ~(\A c \in Peers : browser[c].isInitiator)
    /\ ~(\A c \in Peers : "offer" \in browser[c].sentKinds)
    /\ \A c \in Peers : "answer" \in browser[c].sentKinds => "offer" \notin browser[c].sentKinds
    /\ (Quiescent /\ Mutual(1, 2)) => \E c \in Peers : "offer" \in browser[c].sentKinds

\* C21: within one pairing a client sets its local description at most once
\* and its remote description at most once, however the paired, offer and
\* answer messages interleave.
C21_DescriptionsSetOncePerPairing ==
    \A c \in Peers : browser[c].localSets <= 1 /\ browser[c].remoteSets <= 1

\* the candidates whose addIceCandidate is still queued on the peer connection
Waiting(chain) ==
    LET adds == SelectSeq(chain, LAMBDA o : o.op = "addIceCandidate") IN
    [i \in 1..Len(adds) |-> adds[i].k]

\* C22: no remote ICE candidate is lost, duplicated or reordered: the
\* candidates a client has received are those it has added to its peer
\* connection followed by those still held back, in the order of arrival,
\* also when they arrive before the remote description is set.
C22_CandidatesBufferedInOrder ==
    \A c \in Peers : browser[c].applied \o Waiting(browser[c].chain) = browser[c].received

-----------------------------------------------------------------------------
\* The life of the signaling connection of one browser: startChat, the socket
\* opening or failing, drops, reconnects and stopChat.

\* SignalingService.maxReconnectAttempts
maxReconnectAttempts == 5

\* App: const isActive = [...].includes(status)
isActive(status) == status \in {"waiting", "paired", "connecting", "connected-to-peer"}

\* the sockets of b
SocketsOf(b) == 1..Len(b.sockets)

\* SignalingService.connect(): this.ws = new WebSocket(...), handlers
\* attached, resolve() at once
connect(b) ==
    [b EXCEPT !.sockets = Append(@, Socket("connecting", None)), !.ws = Len(b.sockets) + 1,
              !.created = @ + 1]

\* socket s of b has closed: it leaves sockets, and this.ws, if it is s, is
\* a closed socket, which send() and close() treat as they treat null
closed(b, s) ==
    [b EXCEPT !.sockets = SubSeq(@, 1, s - 1) \o SubSeq(@, s + 1, Len(@)),
              !.ws = IF @ = s THEN 0 ELSE IF @ > s THEN @ - 1 ELSE @]

\* attemptReconnect that schedules a reconnect whatever the counter says
attemptReconnectUnbounded(b) ==
    [b EXCEPT !.reconnectAttempts = @ + 1, !.timers = @ + 1, !.delay = 30000]

\* Math.min(x, y)
Min(x, y) == IF x <= y THEN x ELSE y

\* a delay that starts at the base delay: 1000 * 2^(n - 1), capped
reconnectDelayFromBase(n) == Min(1000 * 2^(n - 1), 30000)

\* the delay before reconnect attempt n:
\* Math.min(1000 * Math.pow(2, this.reconnectAttempts), 30000)
reconnectDelay(n) == Min(1000 * 2^n, 30000)

\* SignalingService.attemptReconnect()
attemptReconnect(b) ==
    IF b.reconnectAttempts < maxReconnectAttempts
    THEN [b EXCEPT !.reconnectAttempts = @ + 1, !.timers = @ + 1,
                   !.delay = reconnectDelay(b.reconnectAttempts + 1)]
    ELSE b

\* WebRTCService.closePeerConnection(): operations queued on a closed peer
\* connection never settle
closePeerConnection(b) ==
    [b EXCEPT !.peerConnection = "null", !.localDescription = "none", !.remoteDescription = "none",
              !.chain = <<>>]

\* WebRTCService.cleanup()
webrtcCleanup(b) == [closePeerConnection(b) EXCEPT !.callbacks = FALSE]

\* SignalingService.close(): this.ws.close(), this.ws = null; the handlers
\* of the socket stay attached. A socket closed while CONNECTING is aborted:
\* nothing arrives on it, its error and close events follow.
close(b) ==
    IF b.ws = 0 THEN b
    ELSE LET sock == b.sockets[b.ws] IN
         [b EXCEPT !.sockets[b.ws].state = CASE @ = "connecting" -> "aborted"
                                             [] @ = "open" -> "closing"
                                             [] OTHER -> @,
                   !.inbox = IF sock.state = "connecting" THEN SelectSeq(@, LAMBDA m : m.to # sock.sid) ELSE @,
                   !.ws = 0,
                   !.partnerId = None]

\* App.startChat with the media stream granted: connect(), then findPartner()
\* in the same turn
startChat(c) ==
    /\ ~isActive(browser[c].status)
    /\ browser[c].created < MaxSockets
    /\ browser' = [browser EXCEPT ![c] =
                     send(connect([@ EXCEPT !.error = FALSE, !.status = "initializing", !.stopped = FALSE]),
                          "find-partner", None)]
    /\ UNCHANGED serverVars

\* wss.on('connection') for the connecting socket s of c
Accept(c, s) ==
    /\ s \in SocketsOf(browser[c])
    /\ browser[c].sockets[s] = Socket("connecting", None)
    /\ Connection
    /\ browser' = Deliver([browser EXCEPT ![c].sockets[s].sid = nextId])

\* ws.onopen of socket s, which the server has accepted
OnOpen(c, s) ==
    /\ s \in SocketsOf(browser[c])
    /\ browser[c].sockets[s].state = "connecting"
    /\ browser[c].sockets[s].sid # None
    /\ browser' = [browser EXCEPT ![c].sockets[s].state = "open", ![c].reconnectAttempts = 0]
    /\ UNCHANGED serverVars

\* ws.onerror of socket s, which did not reach the server or was aborted:
\* onError sets the App error
OnError(c, s) ==
    /\ s \in SocketsOf(browser[c])
    /\ browser[c].sockets[s] = Socket("connecting", None) \/ browser[c].sockets[s].state = "aborted"
    /\ browser' = [browser EXCEPT ![c].sockets[s].state = "failed", ![c].error = TRUE]
    /\ UNCHANGED serverVars

\* ws.onclose of socket s (failed, dropped while open, or closed by
\* close()), after the messages that arrived on it: onDisconnected, then
\* attemptReconnect()
OnClose(c, s) ==
    /\ s \in SocketsOf(browser[c])
    /\ browser[c].sockets[s].state \in {"failed", "open", "closing"}
    /\ \A i \in 1..Len(browser[c].inbox) : browser[c].inbox[i].to # browser[c].sockets[s].sid
    /\ browser' = [browser EXCEPT ![c] =
                     attemptReconnect([closed(@, s) EXCEPT !.status = "disconnected"])]
    /\ UNCHANGED serverVars

\* the reconnect timeout fires: this.connect()
TimerFires(c) ==
    /\ browser[c].timers > 0
    /\ browser[c].created < MaxSockets
    /\ browser' = [browser EXCEPT ![c] = connect([@ EXCEPT !.timers = @ - 1])]
    /\ UNCHANGED serverVars

\* App.stopChat: cleanup(), setStatus('disconnected')
stopChat(c) ==
    /\ isActive(browser[c].status)
    /\ browser' = [browser EXCEPT ![c] =
                     [close(webrtcCleanup(@)) EXCEPT !.status = "disconnected", !.stopped = TRUE]]
    /\ UNCHANGED serverVars

\* the server's ws.on('close') for a socket whose browser's end is closing
\* or has closed
ServerCloses(id) ==
    /\ id \in clients
    /\ \A c \in Peers : \A s \in SocketsOf(browser[c]) :
           browser[c].sockets[s].sid = id => browser[c].sockets[s].state = "closing"
    /\ Close(id)
    /\ browser' = Deliver(browser)

\* a message written to a socket the server no longer reads is lost
Lost(c) ==
    /\ browser[c].outbox # <<>>
    /\ ~Receiving(Head(browser[c].outbox).from)
    /\ browser' = [browser EXCEPT ![c].outbox = Tail(@)]
    /\ UNCHANGED serverVars

\* handleMessage, case 'disconnected' -> signaling.onDisconnected
OnDisconnected(c) ==
    /\ Handling(c, "disconnected")
    /\ browser' = [browser EXCEPT ![c] = [Handled(c) EXCEPT !.status = "disconnected", !.partnerId = None]]
    /\ UNCHANGED serverVars

\* handleMessage, case 'partner-left' -> signaling.onPartnerLeft
OnPartnerLeft(c) ==
    /\ Handling(c, "partner-left")
    /\ browser' = [browser EXCEPT ![c] = [closePeerConnection(Handled(c)) EXCEPT !.status = "partner-left", !.partnerId = None]]
    /\ UNCHANGED serverVars

\* App.skipPartner: handleDisconnect(), skip(), setStatus('waiting'), findPartner()
skipPartner(c) ==
    /\ isActive(browser[c].status)
    /\ browser' = [browser EXCEPT ![c] =
                     send([send(closePeerConnection(@), "skip", None) EXCEPT !.status = "waiting", !.partnerId = None],
                          "find-partner", None)]
    /\ UNCHANGED serverVars

\* peerConnection.onconnectionstatechange -> webrtc.onConnectionStateChange
ConnectionStateChange(c, state) ==
    /\ browser[c].peerConnection # "null"
    /\ browser[c].localDescription # "none"
    /\ state = "connected" => browser[c].remoteDescription # "none"
    /\ browser' = [browser EXCEPT ![c].status =
                     IF ~browser[c].callbacks THEN @
                     ELSE IF state = "connected" THEN "connected-to-peer" ELSE "connection-failed"]
    /\ UNCHANGED serverVars

\* the user asks for a partner on the open socket, when the client is
\* connected, has no partner and nothing of it is on its way
requestPairing(c) ==
    /\ browser[c].status \in {"connected", "partner-left"}
    /\ browser[c].outbox = <<>>
    /\ browser[c].inbox = <<>>
    /\ findPartner(c)

\* App.startChat by a user who has no connection attempt under way
userStarts(c) ==
    /\ \A s \in SocketsOf(browser[c]) : browser[c].sockets[s].state # "connecting"
    /\ startChat(c)

\* App.skipPartner by a user whose earlier requests the server has handled
userSkips(c) ==
    /\ browser[c].outbox = <<>>
    /\ skipPartner(c)

ConnInit == ServerInit /\ browser = [c \in Peers |-> MountedClient]

\* one browser runs, the other one stays as mounted
Users == {1}

\* The signaling connection that fails, drops and is retried.
RetryNext ==
    \/ \E c \in Users : userStarts(c)
    \/ \E c \in Users, s \in 1..MaxSockets : Accept(c, s)
    \/ \E c \in Users, s \in 1..MaxSockets : OnOpen(c, s)
    \/ \E c \in Users, s \in 1..MaxSockets : OnError(c, s)
    \/ \E c \in Users, s \in 1..MaxSockets : OnClose(c, s)
    \/ \E c \in Users : TimerFires(c)
    \/ \E c \in Users : OnConnected(c)
    \/ \E id \in Ids : ServerCloses(id)

SpecRetry == ConnInit /\ [][RetryNext]_vars

\* One user who starts, asks for a partner, waits and stops, over a server
\* that is reachable.
StopNext ==
    \/ \E c \in Users : userStarts(c)
    \/ \E c \in Users, s \in 1..MaxSockets : Accept(c, s)
    \/ \E c \in Users, s \in 1..MaxSockets : OnOpen(c, s)
    \/ \E c \in Users, s \in 1..MaxSockets : OnClose(c, s)
    \/ \E c \in Users : TimerFires(c)
    \/ \E c \in Users : OnConnected(c)
    \/ \E c \in Users : requestPairing(c)
    \/ \E c \in Users : ServerHandles(c)
    \/ \E c \in Users : Lost(c)
    \/ \E c \in Users : OnWaiting(c)
    \/ \E c \in Users : stopChat(c)
    \/ \E c \in Users, s \in 1..MaxSockets :
           s \in SocketsOf(browser[c]) /\ browser[c].sockets[s].state = "aborted" /\ OnError(c, s)
    \/ \E id \in Ids : ServerCloses(id)

SpecStop == ConnInit /\ [][StopNext]_vars

ConnTypeOK ==
    \A c \in Peers :
        /\ browser[c].reconnectAttempts \in 0..maxReconnectAttempts
        /\ browser[c].created <= MaxSockets
        /\ browser[c].ws \in 0..Len(browser[c].sockets)

\* C23: once the user has stopped the session, and until the user starts a
\* chat again, the signaling client schedules no reconnect and opens no new
\* WebSocket.
C23_NoReconnectAfterStop ==
    [][\A c \in Peers :
          (browser[c].stopped /\ browser'[c].stopped) =>
              /\ browser'[c].timers <= browser[c].timers
              /\ browser'[c].created = browser[c].created]_vars

\* a socket of c opens in this step
Opens(c) ==
    \E s \in SocketsOf(browser[c]) :
        /\ browser[c].sockets[s].state = "connecting"
        /\ s \in SocketsOf(browser'[c])
        /\ browser'[c].sockets[s].state = "open"

\* C24: reconnectAttempts stays within 0..maxReconnectAttempts; a reconnect
\* is scheduled only while the counter is below the maximum, and counts as
\* one more attempt, so at most 5 are scheduled in a row and none after the
\* 5th failure; and the counter goes down only to 0, and only when a socket
\* opens.
C24_ReconnectAttemptsBounded ==
    /\ [](\A c \in Peers : browser[c].reconnectAttempts \in 0..maxReconnectAttempts)
    /\ [][\A c \in Peers :
             /\ browser'[c].timers > browser[c].timers =>
                    /\ browser[c].reconnectAttempts < maxReconnectAttempts
                    /\ browser'[c].reconnectAttempts = browser[c].reconnectAttempts + 1
             /\ browser'[c].reconnectAttempts < browser[c].reconnectAttempts =>
                    browser'[c].reconnectAttempts = 0 /\ Opens(c)]_vars

\* the 5th reconnect in a row has failed and none is scheduled
C24_Witness ==
    \E c \in Peers :
        /\ browser[c].reconnectAttempts = maxReconnectAttempts
        /\ browser[c].timers = 0
        /\ browser[c].sockets = <<>>
        /\ browser[c].created > maxReconnectAttempts

\* C25: the reconnect scheduled as attempt n waits min(1000 * 2^n, 30000) ms,
\* that is 2000, 4000, 8000, 16000, 30000 for n = 1..5; from one attempt to
\* the next in a row the delay doubles until the cap, never exceeds 30000 and
\* never decreases.
C25_BackoffDelays ==
    /\ [](\A c \in Peers :
             browser[c].reconnectAttempts >= 1 =>
                 browser[c].delay = <<2000, 4000, 8000, 16000, 30000>>[browser[c].reconnectAttempts])
    /\ [][\A c \in Peers :
             browser'[c].timers > browser[c].timers =>
                 /\ browser'[c].delay <= 30000
                 /\ browser[c].reconnectAttempts >= 1 =>
                        /\ browser'[c].delay >= browser[c].delay
                        /\ browser'[c].delay = 2 * browser[c].delay \/ browser'[c].delay = 30000]_vars

\* the fifth reconnect in a row is scheduled, with the capped delay
C25_Witness ==
    \E c \in Peers :
        /\ browser[c].reconnectAttempts = maxReconnectAttempts
        /\ browser[c].timers > 0
        /\ browser[c].delay = 30000

\* SpecStop over a server that is reachable and sockets that open: a
\* connecting socket is accepted and opens, and messages written to a socket
\* are handled at the other end.
FairStop ==
    /\ SpecStop
    /\ WF_vars(\E c \in Users, s \in 1..MaxSockets : Accept(c, s))
    /\ WF_vars(\E c \in Users, s \in 1..MaxSockets : OnOpen(c, s))
    /\ WF_vars(\E c \in Users : OnConnected(c))
    /\ WF_vars(\E c \in Users : ServerHandles(c))
    /\ WF_vars(\E c \in Users : OnWaiting(c))

\* a socket of c is in the waiting queue or paired at the server
QueuedOrPaired(c) ==
    \E s \in SocketsOf(browser[c]) :
        LET id == browser[c].sockets[s].sid IN
        id # None /\ (Includes(waitingQueue, id) \/ activePairs[id] # None)

\* C26: once startChat has run (status 'initializing') and the server can
\* take the connection, the find-partner of startChat reaches the server, so
\* the user is eventually in the waiting queue or paired, unless the
\* connection is lost or closed, or another one is made, first.
C26_StartChatFindsPartner ==
    \A c \in Users :
        (browser[c].status = "initializing" /\ readyState(browser[c]) = "connecting" /\ nextId <= MaxIds)
            ~> \/ QueuedOrPaired(c)
               \/ readyState(browser[c]) \notin {"connecting", "open"}
               \/ browser[c].created > 1

-----------------------------------------------------------------------------
\* Two users on open sockets who ask for a partner and negotiate; one of
\* them skips, once, and they ask again.
PairNext ==
    \/ \E c \in Peers : ServerHandles(c)
    \/ \E c \in Peers : OnConnected(c)
    \/ \E c \in Peers : requestPairing(c)
    \/ \E c \in Peers : OnWaiting(c)
    \/ \E c \in Peers : OnPaired(c)
    \/ \E c \in Peers : OnOffer(c)
    \/ \E c \in Peers : OnAnswer(c)
    \/ \E c \in Peers : OnPartnerLeft(c)
    \/ \E c \in Peers : OnDisconnected(c)
    \/ \E c \in Peers, rollback \in BOOLEAN : ChainStep(c, rollback)
    \/ \E c \in Users : "skip" \notin browser[c].sentKinds /\ userSkips(c)

SpecPair == NegInit /\ [][PairNext]_vars

\* C27: whenever a client handles 'paired' it holds no peer connection, and
\* so no local or remote description, from an earlier pairing.
C27_PairedStartsFromFreshConnection ==
    [][\A c \in Peers : OnPaired(c) => browser[c].peerConnection = "null"]_vars

-----------------------------------------------------------------------------
\* Two users on open sockets who ask for a partner and negotiate; one of
\* them stops, starts again and asks again, the other one asks once.
AgainNext ==
    \/ \E c \in Peers : ServerHandles(c)
    \/ \E c \in Peers : Lost(c)
    \/ \E c \in Peers : OnConnected(c)
    \/ \E c \in Users : requestPairing(c)
    \/ \E c \in Peers \ Users : "find-partner" \notin browser[c].sentKinds /\ requestPairing(c)
    \/ \E c \in Peers : OnWaiting(c)
    \/ \E c \in Peers : OnPaired(c)
    \/ \E c \in Peers : OnOffer(c)
    \/ \E c \in Peers : OnAnswer(c)
    \/ \E c \in Peers : OnIceCandidate(c)
    \/ \E c \in Peers : OnPartnerLeft(c)
    \/ \E c \in Peers, rollback \in BOOLEAN : ChainStep(c, rollback)
    \/ \E c \in Users : IceCandidate(c)
    \/ \E c \in Users : stopChat(c)
    \/ \E c \in Users : browser[c].stopped /\ userStarts(c)
    \/ \E c \in Users, s \in 1..MaxSockets : Accept(c, s)
    \/ \E c \in Users, s \in 1..MaxSockets : OnOpen(c, s)
    \/ \E id \in Ids : ServerCloses(id)

SpecAgain == NegInit /\ [][AgainNext]_vars

\* C28: every ICE candidate a peer connection produces is relayed at once:
\* exactly one ice-candidate message carrying it is written to the socket in
\* the same step, in every session.
C28_EveryCandidateRelayed ==
    [][\A c \in Peers :
          browser'[c].produced = browser[c].produced + 1 =>
              browser'[c].outbox =
                  Append(browser[c].outbox,
                         [type |-> "ice-candidate", payload |-> browser'[c].produced,
                          from |-> socketId(browser[c])])]_vars

-----------------------------------------------------------------------------
\* Two users on open sockets who ask for a partner and negotiate; the socket
\* of one of them drops, once, and is reconnected.
DropNext ==
    \/ \E c \in Peers : ServerHandles(c)
    \/ \E c \in Peers : Lost(c)
    \/ \E c \in Peers : OnConnected(c)
    \/ \E c \in Peers : requestPairing(c)
    \/ \E c \in Peers : OnWaiting(c)
    \/ \E c \in Peers : OnPaired(c)
    \/ \E c \in Peers : OnOffer(c)
    \/ \E c \in Peers : OnAnswer(c)
    \/ \E c \in Peers : OnPartnerLeft(c)
    \/ \E c \in Peers, rollback \in BOOLEAN : ChainStep(c, rollback)
    \/ \E c \in Users, s \in 1..MaxSockets : browser[c].created = 1 /\ OnClose(c, s)
    \/ \E c \in Users : TimerFires(c)
    \/ \E c \in Users, s \in 1..MaxSockets : Accept(c, s)
    \/ \E c \in Users, s \in 1..MaxSockets : OnOpen(c, s)
    \/ \E id \in Ids : ServerCloses(id)

SpecDrop == NegInit /\ [][DropNext]_vars

\* C29: a client that reconnects re-enters Idle: the server registers the
\* new socket as a participant that is neither queued nor paired; once the
\* server has handled the closure of a socket, no pairing of it and no place
\* in the queue is left; and the client sends find-partner only when the
\* user asks for a partner, never by reconnecting.
C29_ReconnectReentersIdle ==
    /\ [](\A id \in Ids :
             ws[id] = "closed" =>
                 /\ activePairs[id] = None
                 /\ \A j \in Ids : activePairs[j] # id
                 /\ ~Includes(waitingQueue, id))
    /\ [][\A c \in Peers : \A s \in 1..MaxSockets :
             Accept(c, s) =>
                 /\ ~Includes(waitingQueue', nextId)
                 /\ activePairs'[nextId] = None
                 /\ \A j \in Ids : activePairs'[j] # nextId]_vars
    /\ [][\A c \in Peers :
             (/\ Len(browser'[c].outbox) > Len(browser[c].outbox)
              /\ browser'[c].outbox[Len(browser'[c].outbox)].type = "find-partner")
                 => requestPairing(c)]_vars

\* the socket of client 1 dropped while it was paired, the server has handled
\* the closure and told the partner, and client 1 is connected again, as an
\* idle participant
C29_Witness ==
    /\ ws[1] = "closed"
    /\ browser[2].status = "partner-left"
    /\ browser[1].created = 2
    /\ browser[1].status = "connected"
    /\ readyState(browser[1]) = "open"
    /\ socketId(browser[1]) \in clients
    /\ Idle(socketId(browser[1]))

-----------------------------------------------------------------------------
\* Two users on open sockets who ask for a partner and negotiate while the
\* transport reports its connectivity; one of them skips, once, when the
\* Skip Partner button is shown.
ConnectionStates == {"connected", "disconnected", "failed"}

FailNext ==
    \/ \E c \in Peers : ServerHandles(c)
    \/ \E c \in Peers : OnConnected(c)
    \/ \E c \in Peers : requestPairing(c)
    \/ \E c \in Peers : OnWaiting(c)
    \/ \E c \in Peers : OnPaired(c)
    \/ \E c \in Peers : OnOffer(c)
    \/ \E c \in Peers : OnAnswer(c)
    \/ \E c \in Peers : OnPartnerLeft(c)
    \/ \E c \in Peers : OnDisconnected(c)
    \/ \E c \in Peers, rollback \in BOOLEAN : ChainStep(c, rollback)
    \/ \E c \in Peers, state \in ConnectionStates : ConnectionStateChange(c, state)
    \/ \E c \in Users : "skip" \notin browser[c].sentKinds /\ userSkips(c)

SpecFail == NegInit /\ [][FailNext]_vars

\* C30: a connectivity failure is terminal for the pairing and is released by
\* a skip: while the status is 'connection-failed' the Skip Partner button is
\* rendered (the controls are those of an active chat), and the client writes
\* no offer.
C30_FailureReleasedBySkip ==
    /\ [](\A c \in Peers : browser[c].status = "connection-failed" => isActive(browser[c].status))
    /\ [][\A c \in Peers :
            (/\ browser[c].status = "connection-failed"
             /\ Len(browser'[c].outbox) > Len(browser[c].outbox))
            => browser'[c].outbox[Len(browser'[c].outbox)].type # "offer"]_vars

-----------------------------------------------------------------------------
\* C31: after every event the server has handled, waitingQueue holds at most
\* one id: two participants are never left waiting at the same time.
C31_AtMostOneWaiting == Len(waitingQueue) <= 1

\* C31 witness: a find-partner has left its sender alone in the queue while
\* two others are paired, so the queue was emptied by a pairing and filled again.
C31_Witness ==
    /\ last = "find-partner"
    /\ Len(waitingQueue) = 1
    /\ \E a \in Ids, b \in Ids : Mutual(a, b) /\ a # waitingQueue[1] /\ b # waitingQueue[1]

\* C32: in every reachable state every id in waitingQueue and every key and
\* value of activePairs is a key of clients, also after a transport's error
\* event that is followed by messages or by its close event.
C32_OnlyRegisteredQueuedOrPaired ==
    /\ \A i \in 1..Len(waitingQueue) : waitingQueue[i] \in clients
    /\ \A k \in Ids : activePairs[k] # None => k \in clients /\ activePairs[k] \in clients

\* C33: relayed negotiation messages flow only between mutual partners:
\* whenever the server forwards an offer, answer or ice-candidate from A to B,
\* activePairs maps B to A at that moment.
C33_RelayOnlyBetweenMutualPartners ==
    [][last' = "relay" =>
          \A i \in 1..Len(sent') : activePairs[sent'[i].to] = sent'[i].arg
      ]_vars

\* C34: negotiation messages never cross pairings: an answer the server
\* forwards to a participant answers an offer of that participant which the
\* server forwarded in their current pairing, whatever the interleaving of
\* skip, find-partner and relayed messages in flight.
C34_AnswersNeverCrossPairings ==
    [][last' = "relay" =>
          \A i \in 1..Len(sent') : \A c \in Peers :
              (sent'[i].type = "answer" /\ sent'[i].to \in Listening(browser[c]))
                  => browser[c].offerRelayed
      ]_vars

\* C35: a SignalingService has at most one live (connecting or open)
\* WebSocket with its handlers attached at any time, whatever the
\* interleaving of connect(), close(), socket closes, reconnect timers and
\* Start Chat; so one client is registered at the server as at most one
\* participant.
C35_OneLiveSocket ==
    \A c \in Peers :
        /\ Cardinality({s \in SocketsOf(browser[c]) : browser[c].sockets[s].state \in {"connecting", "open"}}) <= 1
        /\ Cardinality(Listening(browser[c]) \cap clients) <= 1

\* every message written has been handled and the server has handled the
\* close of every socket that has closed
AllDelivered ==
    /\ \A c \in Peers : browser[c].inbox = <<>> /\ browser[c].outbox = <<>>
    /\ \A id \in clients : \E c \in Peers : id \in Listening(browser[c])

\* C36: the client's view of pairing follows the server's: isPaired() is
\* false whenever the client's socket has closed, and once everything in
\* flight is delivered isPaired() is true only if activePairs maps the
\* client's id to the partnerId the client holds.
C36_ClientPairingFollowsServer ==
    \A c \in Peers :
        browser[c].partnerId # None =>
            /\ readyState(browser[c]) # "null"
            /\ AllDelivered => /\ socketId(browser[c]) # None
                               /\ activePairs[socketId(browser[c])] = browser[c].partnerId

-----------------------------------------------------------------------------
\* The server and two participants it has accepted, each with a client that
\* only counts the 'waiting' messages written to it: waitings since it was
\* last paired, stay since it last was outside the queue.
CountingClient == [waitings |-> 0, stay |-> 0]

\* the messages of type type written to id in this step
Written(id, type) == Len(SelectSeq(sent', LAMBDA m : m.to = id /\ m.type = type))

Count ==
    browser' = [i \in Ids |->
                  [waitings |-> IF Written(i, "paired") > 0 THEN 0
                                ELSE browser[i].waitings + Written(i, "waiting"),
                   stay |-> IF ~Includes(waitingQueue', i) THEN 0
                            ELSE browser[i].stay + Written(i, "waiting")]]

WaitInit == BothAccepted /\ browser = [i \in Ids |-> CountingClient]

WaitNext ==
    \/ \E userId \in Ids : browser[userId].waitings < MaxWaitings /\ FindPartner(userId) /\ Count
    \/ \E userId \in Ids, kind \in {"skip", "disconnect"} : SkipOrDisconnect(kind, userId) /\ Count
    \/ \E userId \in Ids : Error(userId) /\ Count
    \/ \E userId \in Ids : Close(userId) /\ Count
    \/ \E userId \in Ids : Drop(userId) /\ Count

SpecWait == WaitInit /\ [][WaitNext]_vars

\* C37 as stated: a find-partner that enqueues its sender without completing
\* a pair writes exactly one 'waiting', to the sender; one that completes a
\* pair writes the two 'paired' messages and no 'waiting'; one from a
\* participant already in the queue writes nothing; hence a participant is
\* sent 'waiting' at most once between two of its pairings.
C37_WaitingOncePerPairing ==
    /\ [][\A a \in Ids :
            (last' = "find-partner" /\ FindPartner(a)) =>
                IF Includes(waitingQueue, a) THEN sent' = <<>>
                ELSE IF waitingQueue = <<>> THEN sent' = <<Msg(a, "waiting", None, None)>>
                ELSE sent' = <<Msg(waitingQueue[1], "paired", a, None), Msg(a, "paired", waitingQueue[1], None)>>
        ]_vars
    /\ [](\A i \in Ids : browser[i].waitings <= 1)

\* C37 amended: the 'waiting' and the 'paired' messages are written to the
\* participants whose transport is registered and open only, and a
\* participant is sent 'waiting' at most once per stay in the queue: a skip,
\* a disconnect or a pairing takes it out of the queue, and its next
\* find-partner is answered with 'waiting' again.
C37_WaitingOncePerStay ==
    /\ [][\A a \in Ids :
            (last' = "find-partner" /\ FindPartner(a)) =>
                LET live(x) == x \in clients /\ ws[x] = "open"
                    to(x, m) == IF live(x) THEN <<m>> ELSE <<>>
                IN
                IF Includes(waitingQueue, a) THEN sent' = <<>>
                ELSE IF waitingQueue = <<>> THEN sent' = to(a, Msg(a, "waiting", None, None))
                ELSE sent' = to(waitingQueue[1], Msg(waitingQueue[1], "paired", a, None))
                             \o to(a, Msg(a, "paired", waitingQueue[1], None))
        ]_vars
    /\ [](\A i \in Ids : browser[i].stay <= 1)

\* C37 witness: a find-partner has just been answered with the second
\* 'waiting' its sender is sent since it was last paired, the first one of
\* its present stay in the queue.
C37_Witness ==
    /\ last = "find-partner"
    /\ \E i \in Ids :
          /\ browser[i].waitings = 2
          /\ browser[i].stay = 1
          /\ sent = <<Msg(i, "waiting", None, None)>>

-----------------------------------------------------------------------------
\* the type and the payload of the negotiation messages of msgs, in order
Negotiation(msgs) ==
    LET relayed == SelectSeq(msgs, LAMBDA m : m.type \in RelayKinds) IN
    [i \in 1..Len(relayed) |-> <<relayed[i].type, relayed[i].payload>>]

\* the negotiation messages of c that d has still to handle: those the
\* server has forwarded to d, then those c has written and the server has
\* not handled yet
Pending(c, d) == Negotiation(browser[d].inbox) \o Negotiation(browser[c].outbox)

\* the candidates of a sequence of negotiation messages, in order
Candidates(neg) ==
    LET ice == SelectSeq(neg, LAMBDA n : n[1] = "ice-candidate") IN
    [i \in 1..Len(ice) |-> ice[i][2]]

\* C38: the relay preserves order and multiplicity: the negotiation messages
\* the server accepts from A while A is paired with B are sent to B each
\* exactly once, in the order in which A sent them. The candidates B has
\* received and has still to receive are those A produced, 1, 2, ..., each
\* once and in this order, and the offer of A precedes its candidates.
C38_RelayKeepsOrderAndMultiplicity ==
    \A c \in Peers : \A d \in Peers \ {c} :
        /\ browser[d].received \o Candidates(Pending(c, d)) = [k \in 1..browser[c].produced |-> k]
        /\ \A i \in 1..Len(Pending(c, d)) : \A j \in 1..(i - 1) :
               ~(Pending(c, d)[i][1] = "offer" /\ Pending(c, d)[j][1] = "ice-candidate")

\* C38 witness: the partner of a client that has sent its offer and all its
\* candidates has handled the two candidates in the order they were produced.
C38_Witness ==
    \E c \in Peers : \E d \in Peers \ {c} :
        /\ browser[c].produced = MaxCandidates
        /\ "offer" \in browser[c].sentKinds
        /\ browser[d].received = [k \in 1..MaxCandidates |-> k]
        /\ browser[d].remoteDescription # "none"

=============================================================================
